---- MODULE Spec2Model ----
(***************************************************************************)
(* The loading and graph-assembly pipeline of app/visual: load_controls,   *)
(* load_documents, load_selected_controls and create_elements, run over    *)
(* three directories of markdown files.                                    *)
(*                                                                         *)
(* A text (a filename, a file's content, an id) is a sequence of           *)
(* one-character strings, so that the regular expressions, split, strip    *)
(* and int of the source are computed character by character.              *)
(***************************************************************************)
EXTENDS Integers, Sequences, FiniteSets, TLC

VARIABLES
    entry_point,             \* "main": presenter.main runs; "functions": a client calls the same functions
    case_insensitive_glob,   \* the platform: Path.glob folds case (Windows) or not (POSIX)
    controls_dir,            \* the directory main() names CONTROLS_DIR
    documents_dir,           \* the directory main() names DOCUMENTS_DIR
    selected_documents_dir,  \* the directory main() names SELECTED_DOCUMENTS_DIR
    pc,                      \* the call the pipeline makes next
    controls,                \* the list load_controls returned last
    documents,               \* the list load_documents returned last
    selected_controls,       \* the list load_selected_controls returned last
    elements,                \* the list create_elements returned last
    warnings,                \* the "Warning: ..." lines printed during the current run
    raised,                  \* the exception that ended the current run, or "none"
    built,                   \* TRUE once a run has returned from create_elements
    control_id,              \* the id find_control_file was last called with
    control_path,            \* the path find_control_file returned, if it returned
    agent,                   \* DocumentSelector._agent: 0 for None, else the nth agent created
    agents_created,          \* the number of agents _initialize_agent has created
    prompts,                 \* the agent each prompt was sent to, in the order of sending
    calls,                   \* the number of calls of select_documents so far
    call,                    \* the arguments of the last call of select_documents
    returned,                \* what the last call of select_documents returned, if it returned
    agent_response           \* the text the agent answers a prompt with

vars == <<entry_point, case_insensitive_glob, controls_dir, documents_dir, selected_documents_dir,
          pc, controls, documents, selected_controls, elements, warnings, raised, built,
          control_id, control_path, agent, agents_created, prompts, calls, call, returned,
          agent_response>>

\* the state of app/selector, which the loaders and create_elements leave alone
selector_vars ==
    <<control_id, control_path, agent, agents_created, prompts, calls, call, returned,
      agent_response>>

\* the lists of app/visual, which app/selector leaves alone
loaded == <<controls, documents, selected_controls, elements, warnings, built>>

dirs == <<entry_point, case_insensitive_glob, controls_dir, documents_dir, selected_documents_dir>>

----------------------------------------------------------------------------
(* Bounds of the model.                                                    *)

\* files in a directory of the pipeline specification
MaxFiles == 2
\* characters of a filename stem in the filename-parsing specification
MaxStemLen == 6
\* segments of a selection report in the extraction specification
MaxSegments == 6
\* characters of a document's content in the naming specification
MaxContentLen == 5
\* the most calls of select_documents on one DocumentSelector
MaxCalls == 3
\* the most segments of an agent's response
MaxResponseSegments == 3

----------------------------------------------------------------------------
(* Characters and texts.                                                   *)

Digits == {"0", "1", "2", "3", "4", "5", "6", "7", "8", "9"}

\* re's \d on the characters of the model
IsDigit(c) == c \in Digits

\* re's \s, and the characters str.strip() removes
Whitespace == {" ", "\t", "\n", "\r"}

IsSpace(c) == c \in Whitespace

\* re's . (any character but a line break)
IsDot(c) == c # "\n"

DigitValue(c) ==
    CASE c = "0" -> 0 [] c = "1" -> 1 [] c = "2" -> 2 [] c = "3" -> 3 [] c = "4" -> 4
      [] c = "5" -> 5 [] c = "6" -> 6 [] c = "7" -> 7 [] c = "8" -> 8 [] c = "9" -> 9

\* int(x) of a string of decimal digits: leading zeros do not count
RECURSIVE int(_)
int(ds) ==
    IF ds = <<>> THEN 0
    ELSE 10 * int(SubSeq(ds, 1, Len(ds) - 1)) + DigitValue(ds[Len(ds)])

\* float(x) of a string of decimal digits: the same number (a double is exact
\* for every integer below 2^53, far above the ids of the model)
float(ds) == int(ds)

UpperCase == <<"A", "B", "C", "D", "E", "F", "G", "H", "I", "J", "K", "L", "M",
               "N", "O", "P", "Q", "R", "S", "T", "U", "V", "W", "X", "Y", "Z">>

LowerCase == <<"a", "b", "c", "d", "e", "f", "g", "h", "i", "j", "k", "l", "m",
               "n", "o", "p", "q", "r", "s", "t", "u", "v", "w", "x", "y", "z">>

LowerChar(c) ==
    IF \E i \in 1..26 : UpperCase[i] = c
    THEN LowerCase[CHOOSE i \in 1..26 : UpperCase[i] = c]
    ELSE c

\* str.lower()
lower(s) == [i \in 1..Len(s) |-> LowerChar(s[i])]

\* str.startswith(prefix)
startswith(s, prefix) ==
    Len(prefix) <= Len(s) /\ SubSeq(s, 1, Len(prefix)) = prefix

\* str.endswith(suffix)
endswith(s, suffix) ==
    Len(suffix) <= Len(s) /\ SubSeq(s, Len(s) - Len(suffix) + 1, Len(s)) = suffix

\* str.split(sep) for a one-character separator
RECURSIVE split(_, _)
split(s, sep) ==
    IF \A i \in 1..Len(s) : s[i] # sep THEN <<s>>
    ELSE LET i == CHOOSE k \in 1..Len(s) : s[k] = sep /\ \A j \in 1..(k - 1) : s[j] # sep
         IN  <<SubSeq(s, 1, i - 1)>> \o split(SubSeq(s, i + 1, Len(s)), sep)

\* str.lstrip(chars): drop the leading characters that are in chars
RECURSIVE lstrip(_, _)
lstrip(s, chars) ==
    IF s # <<>> /\ s[1] \in chars THEN lstrip(Tail(s), chars) ELSE s

\* str.rstrip(chars)
RECURSIVE rstrip(_, _)
rstrip(s, chars) ==
    IF s # <<>> /\ s[Len(s)] \in chars THEN rstrip(SubSeq(s, 1, Len(s) - 1), chars) ELSE s

\* str.strip(): drop leading and trailing whitespace
strip(s) == rstrip(lstrip(s, Whitespace), Whitespace)

Range(s) == {s[i] : i \in 1..Len(s)}

\* every order a set can be enumerated in
RECURSIVE Perms(_)
Perms(S) ==
    IF S = {} THEN {<<>>}
    ELSE UNION {{<<x>> \o p : p \in Perms(S \ {x})} : x \in S}

\* every text of at most n characters over an alphabet
RECURSIVE TextsUpTo(_, _)
TextsUpTo(alphabet, n) ==
    IF n = 0 THEN {<<>>}
    ELSE LET shorter == TextsUpTo(alphabet, n - 1)
         IN  shorter \cup {Append(t, c) : t \in shorter, c \in alphabet}

----------------------------------------------------------------------------
(* list.sort(key=...): a stable sort on keys that are tuples of integers.  *)

\* Python's comparison k1 < k2 of two tuples of integers
RECURSIVE TupleLess(_, _)
TupleLess(k1, k2) ==
    IF k2 = <<>> THEN FALSE
    ELSE IF k1 = <<>> THEN TRUE
    ELSE IF k1[1] # k2[1] THEN k1[1] < k2[1]
    ELSE TupleLess(Tail(k1), Tail(k2))

\* the positions 1..n of keys in sorted order, equal keys in their first order
RECURSIVE SortedIndices(_, _)
SortedIndices(keys, n) ==
    IF n = 0 THEN <<>>
    ELSE LET prev == SortedIndices(keys, n - 1)
             pos  == Cardinality({j \in 1..(n - 1) : ~TupleLess(keys[n], keys[prev[j]])})
         IN  SubSeq(prev, 1, pos) \o <<n>> \o SubSeq(prev, pos + 1, n - 1)

\* xs.sort(key=...), keys[i] being the key of xs[i]
list_sort(xs, keys) ==
    LET idx == SortedIndices(keys, Len(xs))
    IN  [i \in 1..Len(xs) |-> xs[idx[i]]]

----------------------------------------------------------------------------
(* The file system.  A directory is [exists, files]; a file is             *)
(* [name, content, readable].                                              *)

MD == <<".", "m", "d">>

\* Path.glob("*.md"): the files whose name ends in .md, in no particular order
glob_md(dir, fold_case) ==
    {f \in dir.files : endswith(IF fold_case THEN lower(f.name) ELSE f.name, MD)}

----------------------------------------------------------------------------
(* The filename pattern of controls and selection reports,                 *)
(*     ^(\d+\.\d+)\s+(.+?)\.md$                                            *)
(* matched from the start of the name (re.match).                          *)

\* the ends e >= from of the runs s[from..e] of digits
DigitRunEnds(s, from) ==
    {e \in from..Len(s) : \A k \in from..e : IsDigit(s[k])}

\* the ends e >= from of the runs s[from..e] of whitespace
SpaceRunEnds(s, from) ==
    {e \in from..Len(s) : \A k \in from..e : IsSpace(s[k])}

\* the ends of the text at which $ matches: the end, or before a final line break
DollarEnds(s) ==
    {Len(s)} \cup (IF s # <<>> /\ s[Len(s)] = "\n" THEN {Len(s) - 1} ELSE {})

\* every way the pattern matches s: <<a, b, w, e>> with s[1..a] the major digits,
\* s[a+1] the dot, s[a+2..b] the minor digits, s[b+1..w] the whitespace,
\* s[w+1..e-3] the name and s[e-2..e] the ".md" that $ follows
ControlPatternMatches(s) ==
    UNION {UNION {UNION {
        {<<a, b, w, e>> : e \in {e \in DollarEnds(s) :
                                   /\ e - 3 >= w + 1
                                   /\ SubSeq(s, e - 2, e) = MD
                                   /\ \A k \in (w + 1)..(e - 3) : IsDot(s[k])}}
        : w \in SpaceRunEnds(s, b + 1)}
        : b \in DigitRunEnds(s, a + 2)}
        : a \in {a \in DigitRunEnds(s, 1) : a + 1 <= Len(s) /\ s[a + 1] = "."}}

\* the match the backtracking matcher finds first: \d+ and \s+ are greedy (the
\* longest run first), .+? is lazy (the shortest name first)
FirstMatch(M, lazy_space) ==
    CHOOSE t \in M : \A u \in M :
        \/ t[1] > u[1]
        \/ t[1] = u[1] /\ t[2] > u[2]
        \/ t[1] = u[1] /\ t[2] = u[2] /\ (IF lazy_space THEN t[3] < u[3] ELSE t[3] > u[3])
        \/ t[1] = u[1] /\ t[2] = u[2] /\ t[3] = u[3] /\ t[4] <= u[4]

\* a mutant of control_pattern_match: \s+? for \s+
control_pattern_match_lazy_space(filename) ==
    LET M == ControlPatternMatches(filename)
    IN  IF M = {} THEN <<>>
        ELSE LET t == FirstMatch(M, TRUE)
             IN  <<SubSeq(filename, 1, t[2]), SubSeq(filename, t[3] + 1, t[4] - 3)>>

\* pattern.match(filename): <<>> for None, else <<group(1), group(2)>>
control_pattern_match(filename) ==
    LET M == ControlPatternMatches(filename)
    IN  IF M = {} THEN <<>>
        ELSE LET t == FirstMatch(M, FALSE)
             IN  <<SubSeq(filename, 1, t[2]), SubSeq(filename, t[3] + 1, t[4] - 3)>>

----------------------------------------------------------------------------
(* Warnings: the lines the loaders print.                                  *)

\* "Warning: Filename '...' does not match expected pattern ..."
PatternWarning(filename) == [kind |-> "pattern", filename |-> filename]

\* "Warning: Could not read file ...: ..."
ReadWarning(filename) == [kind |-> "read", filename |-> filename]

----------------------------------------------------------------------------
(* load_controls                                                           *)

\* a mutant of control_sort_key: float(x.id), the id read as a decimal fraction
\* (minor parts of up to three digits)
control_sort_key_decimal(id) ==
    LET parts == split(id, ".")
        scale == CASE Len(parts[2]) = 1 -> 100 [] Len(parts[2]) = 2 -> 10 [] OTHER -> 1
    IN  <<float(parts[1]), float(parts[2]) * scale>>

\* the sort key (float(x.id.split(".")[0]), float(x.id.split(".")[1]))
control_sort_key(id) ==
    LET parts == split(id, ".")
    IN  <<float(parts[1]), float(parts[2])>>

\* a mutant of controls_loop: a name that does not match is skipped in silence
RECURSIVE controls_loop_silent(_)
controls_loop_silent(listing) ==
    IF listing = <<>> THEN [records |-> <<>>, warnings |-> <<>>]
    ELSE LET before == controls_loop_silent(SubSeq(listing, 1, Len(listing) - 1))
             file   == listing[Len(listing)]
             match  == control_pattern_match(file.name)
         IN  IF match # <<>>
             THEN IF file.readable
                  THEN [before EXCEPT !.records =
                            Append(@, [id |-> match[1], name |-> match[2],
                                       content |-> file.content])]
                  ELSE [before EXCEPT !.warnings = Append(@, ReadWarning(file.name))]
             ELSE before

\* the loop over the listing: the Control records appended and the warnings
\* printed, in the order of the listing
RECURSIVE controls_loop(_)
controls_loop(listing) ==
    IF listing = <<>> THEN [records |-> <<>>, warnings |-> <<>>]
    ELSE LET before == controls_loop(SubSeq(listing, 1, Len(listing) - 1))
             file   == listing[Len(listing)]
             match  == control_pattern_match(file.name)
         IN  IF match # <<>>
             THEN IF file.readable
                  THEN [before EXCEPT !.records =
                            Append(@, [id |-> match[1], name |-> match[2],
                                       content |-> file.content])]
                  ELSE [before EXCEPT !.warnings = Append(@, ReadWarning(file.name))]
             ELSE [before EXCEPT !.warnings = Append(@, PatternWarning(file.name))]

\* what load_controls returns and prints when the listing comes in this order
load_controls_of(listing) ==
    LET done == controls_loop(listing)
    IN  [records  |-> list_sort(done.records,
                                [i \in 1..Len(done.records) |->
                                    control_sort_key(done.records[i].id)]),
         warnings |-> done.warnings]

load_controls ==
    /\ pc = "load_controls"
    /\ IF ~controls_dir.exists
       THEN /\ raised' = "FileNotFoundError"
            /\ pc' = "done"
            /\ UNCHANGED <<controls, warnings>>
       ELSE \E listing \in Perms(glob_md(controls_dir, case_insensitive_glob)) :
                LET result == load_controls_of(listing)
                IN  /\ controls' = result.records
                    /\ warnings' = warnings \o result.warnings
                    /\ pc' = "first_control"
                    /\ UNCHANGED raised
    /\ UNCHANGED <<selector_vars, dirs, documents, selected_controls, elements, built>>

----------------------------------------------------------------------------
(* load_documents                                                          *)

\* a mutant of document_pattern_match: the pattern without its $, so that the
\* digits need only be followed by ".md" somewhere
document_pattern_match_prefix(filename) ==
    LET ends == {e \in 1..Len(filename) : \A k \in 1..e : IsDigit(filename[k])}
    IN  IF ends = {} \/ ~endswith(filename, MD) THEN <<>>
        ELSE <<SubSeq(filename, 1, CHOOSE e \in ends : \A d \in ends : e >= d)>>

\* the filename pattern ^(\d+)\.md$: <<>> for None, else <<group(1)>>
document_pattern_match(filename) ==
    LET ends == {e \in DollarEnds(filename) :
                    /\ e - 3 >= 1
                    /\ SubSeq(filename, e - 2, e) = MD
                    /\ \A k \in 1..(e - 3) : IsDigit(filename[k])}
    IN  IF ends = {} THEN <<>>
        ELSE <<SubSeq(filename, 1, (CHOOSE e \in ends : TRUE) - 3)>>

\* a mutant of document_name: the heading markers are removed, the whitespace
\* after them is not
document_name_markers_only(content, document_id) ==
    LET lines      == split(content, "\n")
        first_line == strip(lines[1])
        name       == IF startswith(first_line, <<"#">>)
                      THEN lstrip(first_line, {"#"})
                      ELSE first_line
    IN  IF name = <<>> THEN document_id ELSE name

\* a mutant of document_name: no fallback to the id
document_name_no_fallback(content, document_id) ==
    LET lines      == split(content, "\n")
        first_line == strip(lines[1])
    IN  IF startswith(first_line, <<"#">>)
        THEN strip(lstrip(first_line, {"#"}))
        ELSE first_line

\* the name of a document: from the first line of its content, else its id
document_name(content, document_id) ==
    LET lines      == split(content, "\n")
        first_line == strip(lines[1])
        name       == IF startswith(first_line, <<"#">>)
                      THEN strip(lstrip(first_line, {"#"}))
                      ELSE first_line
    IN  IF name = <<>> THEN document_id ELSE name

RECURSIVE documents_loop(_)
documents_loop(listing) ==
    IF listing = <<>> THEN [records |-> <<>>, warnings |-> <<>>]
    ELSE LET before == documents_loop(SubSeq(listing, 1, Len(listing) - 1))
             file   == listing[Len(listing)]
             match  == document_pattern_match(file.name)
         IN  IF match # <<>>
             THEN IF file.readable
                  THEN [before EXCEPT !.records =
                            Append(@, [id |-> match[1],
                                       name |-> document_name(file.content, match[1]),
                                       content |-> file.content])]
                  ELSE [before EXCEPT !.warnings = Append(@, ReadWarning(file.name))]
             ELSE [before EXCEPT !.warnings = Append(@, PatternWarning(file.name))]

\* what load_documents returns and prints when the listing comes in this order
load_documents_of(listing) ==
    LET done == documents_loop(listing)
    IN  [records  |-> list_sort(done.records,
                                [i \in 1..Len(done.records) |->
                                    <<int(done.records[i].id)>>]),
         warnings |-> done.warnings]

\* a mutant of load_documents: the directory is not tested, and a missing one
\* is listed as an empty one
load_documents_without_exists_check ==
    /\ pc = "load_documents"
    /\ \E listing \in Perms(glob_md(documents_dir, case_insensitive_glob)) :
           LET result == load_documents_of(listing)
           IN  /\ documents' = result.records
               /\ warnings' = warnings \o result.warnings
               /\ pc' = "first_document"
               /\ UNCHANGED raised
    /\ UNCHANGED <<selector_vars, dirs, controls, selected_controls, elements, built>>

load_documents ==
    /\ pc = "load_documents"
    /\ IF ~documents_dir.exists
       THEN /\ raised' = "FileNotFoundError"
            /\ pc' = "done"
            /\ UNCHANGED <<documents, warnings>>
       ELSE \E listing \in Perms(glob_md(documents_dir, case_insensitive_glob)) :
                LET result == load_documents_of(listing)
                IN  /\ documents' = result.records
                    /\ warnings' = warnings \o result.warnings
                    /\ pc' = "first_document"
                    /\ UNCHANGED raised
    /\ UNCHANGED <<selector_vars, dirs, controls, selected_controls, elements, built>>

----------------------------------------------------------------------------
(* extract_document_ids_from_content                                       *)

PAGES == <<"/", "p", "a", "g", "e", "s", "/">>

\* pattern.findall(content) for /pages/(\d+), scanning from position from:
\* the leftmost match, its digits taken greedily, then on from its end
RECURSIVE findall_pages(_, _)
findall_pages(content, from) ==
    LET starts == {i \in from..(Len(content) - 7) :
                      SubSeq(content, i, i + 6) = PAGES /\ IsDigit(content[i + 7])}
    IN  IF starts = {} THEN <<>>
        ELSE LET i == CHOOSE k \in starts : \A j \in starts : k <= j
                 ends == DigitRunEnds(content, i + 7)
                 e == CHOOSE k \in ends : \A j \in ends : k >= j
             IN  <<SubSeq(content, i + 7, e)>> \o findall_pages(content, e + 1)

\* a mutant of found_ids_orders: the list of matches is kept as it is
found_ids_orders_no_set(matches) == {matches}

\* found_ids = set(matches), and every order its iteration can take (the order of
\* a set of strings is not specified and changes with the process's hash seed)
found_ids_orders(matches) == Perms(Range(matches))

\* a mutant of known_only: every id found is kept
known_only_unfiltered(order, available_document_ids) == order

\* a mutant of known_only: an id is kept when its value is that of a known
\* id, however it is written
known_only_by_value(order, available_document_ids) ==
    LET kept == {k \in 1..Len(order) :
                    \E known \in available_document_ids : int(known) = int(order[k])}
        nth(n) == CHOOSE k \in kept : Cardinality({j \in kept : j < k}) = n - 1
    IN  [n \in 1..Cardinality(kept) |-> order[nth(n)]]

\* [doc_id for doc_id in found_ids if doc_id in available_document_ids]
known_only(order, available_document_ids) ==
    LET Known(doc_id) == doc_id \in available_document_ids
    IN  SelectSeq(order, Known)

\* a mutant of sort_by_int: relevant_ids.sort() without the key, the ids
\* compared as strings
sort_by_int_as_strings(relevant_ids) ==
    list_sort(relevant_ids,
              [i \in 1..Len(relevant_ids) |->
                  [k \in 1..Len(relevant_ids[i]) |-> DigitValue(relevant_ids[i][k])]])

\* relevant_ids.sort(key=lambda x: int(x))
sort_by_int(relevant_ids) ==
    list_sort(relevant_ids, [i \in 1..Len(relevant_ids) |-> <<int(relevant_ids[i])>>])

\* the lists extract_document_ids_from_content can return: one for each order
\* in which the set of found ids can be iterated
extract_document_ids_from_content(content, available_document_ids) ==
    {sort_by_int(known_only(order, available_document_ids)) :
        order \in found_ids_orders(findall_pages(content, 1))}

----------------------------------------------------------------------------
(* load_selected_controls                                                  *)

TEMPLATE_MD == <<"t", "e", "m", "p", "l", "a", "t", "e", ".", "m", "d">>

\* a mutant of is_template: the name is compared as it is
is_template_case_sensitive(filename) == filename = TEMPLATE_MD

\* filename.lower() == "template.md"
is_template(filename) == lower(filename) = TEMPLATE_MD

\* a mutant of selected_loop: a report in which no known id occurs is skipped,
\* and a file that cannot be read ends the loop with nothing
RECURSIVE selected_loop_strict(_, _)
selected_loop_strict(listing, available_document_ids) ==
    IF listing = <<>> THEN {[records |-> <<>>, warnings |-> <<>>]}
    ELSE LET befores == selected_loop_strict(SubSeq(listing, 1, Len(listing) - 1),
                                             available_document_ids)
             file    == listing[Len(listing)]
             match   == control_pattern_match(file.name)
         IN  IF is_template(file.name) THEN befores
             ELSE IF match # <<>>
             THEN IF file.readable
                  THEN {IF ids = <<>> THEN before
                        ELSE [before EXCEPT !.records =
                                Append(@, [id |-> match[1], name |-> match[2],
                                           relevant_document_ids |-> ids])] :
                        before \in befores,
                        ids \in extract_document_ids_from_content(
                                    file.content, available_document_ids)}
                  ELSE {[records |-> <<>>,
                         warnings |-> Append(before.warnings, ReadWarning(file.name))] :
                        before \in befores}
             ELSE {[before EXCEPT !.warnings = Append(@, PatternWarning(file.name))] :
                   before \in befores}

\* the loop over the listing: every [records, warnings] it can end with
RECURSIVE selected_loop(_, _)
selected_loop(listing, available_document_ids) ==
    IF listing = <<>> THEN {[records |-> <<>>, warnings |-> <<>>]}
    ELSE LET befores == selected_loop(SubSeq(listing, 1, Len(listing) - 1),
                                      available_document_ids)
             file    == listing[Len(listing)]
             match   == control_pattern_match(file.name)
         IN  IF is_template(file.name) THEN befores
             ELSE IF match # <<>>
             THEN IF file.readable
                  THEN {[before EXCEPT !.records =
                            Append(@, [id |-> match[1], name |-> match[2],
                                       relevant_document_ids |-> ids])] :
                        before \in befores,
                        ids \in extract_document_ids_from_content(
                                    file.content, available_document_ids)}
                  ELSE {[before EXCEPT !.warnings = Append(@, ReadWarning(file.name))] :
                        before \in befores}
             ELSE IF ~is_template(file.name)
                  THEN {[before EXCEPT !.warnings = Append(@, PatternWarning(file.name))] :
                        before \in befores}
                  ELSE befores

\* what load_selected_controls can return and print when the listing comes in
\* this order
load_selected_controls_of(listing, docs) ==
    {[records  |-> list_sort(done.records,
                             [i \in 1..Len(done.records) |->
                                 control_sort_key(done.records[i].id)]),
      warnings |-> done.warnings] :
        done \in selected_loop(listing, {docs[i].id : i \in 1..Len(docs)})}

load_selected_controls ==
    /\ pc = "load_selected_controls"
    /\ IF ~selected_documents_dir.exists
       THEN /\ raised' = "FileNotFoundError"
            /\ pc' = "done"
            /\ UNCHANGED <<selected_controls, warnings>>
       ELSE \E listing \in Perms(glob_md(selected_documents_dir, case_insensitive_glob)) :
            \E result \in load_selected_controls_of(listing, documents) :
                /\ selected_controls' = result.records
                /\ warnings' = warnings \o result.warnings
                /\ pc' = "third_selected_control"
                /\ UNCHANGED raised
    /\ UNCHANGED <<selector_vars, dirs, controls, documents, elements, built>>

----------------------------------------------------------------------------
(* What main() reads of each list before it makes the next call:           *)
(* controls[0], documents[0] and selected_controls[2].  A client that      *)
(* calls the functions itself reads nothing in between.                    *)

first_control ==
    /\ pc = "first_control"
    /\ IF entry_point = "main" /\ Len(controls) < 1
       THEN raised' = "IndexError" /\ pc' = "done"
       ELSE pc' = "load_documents" /\ UNCHANGED raised
    /\ UNCHANGED <<selector_vars, dirs, controls, documents, selected_controls, elements, warnings, built>>

first_document ==
    /\ pc = "first_document"
    /\ IF entry_point = "main" /\ Len(documents) < 1
       THEN raised' = "IndexError" /\ pc' = "done"
       ELSE pc' = "load_selected_controls" /\ UNCHANGED raised
    /\ UNCHANGED <<selector_vars, dirs, controls, documents, selected_controls, elements, warnings, built>>

third_selected_control ==
    /\ pc = "third_selected_control"
    /\ IF entry_point = "main" /\ Len(selected_controls) < 3
       THEN raised' = "IndexError" /\ pc' = "done"
       ELSE pc' = "create_elements" /\ UNCHANGED raised
    /\ UNCHANGED <<selector_vars, dirs, controls, documents, selected_controls, elements, warnings, built>>

----------------------------------------------------------------------------
(* create_elements                                                         *)

\* the node of a control: its class is a key of "data"
ControlNode(control) ==
    [data |-> [id |-> control.id,
               label |-> control.id \o <<" ">> \o control.name,
               classes |-> "Control"]]

\* the node of a document: its class is a key of the element
DocumentNode(document) ==
    [data |-> [id |-> document.id, label |-> document.name], classes |-> "Document"]

\* the edges of one selected control, in the order of its list
EdgesOf(selected_control) ==
    [k \in 1..Len(selected_control.relevant_document_ids) |->
        [data |-> [source |-> selected_control.id,
                   target |-> selected_control.relevant_document_ids[k]]]]

\* a mutant of AllEdges: the edges of the last record come first
RECURSIVE AllEdges_last_record_first(_)
AllEdges_last_record_first(selected) ==
    IF selected = <<>> THEN <<>>
    ELSE EdgesOf(selected[Len(selected)])
            \o AllEdges_last_record_first(SubSeq(selected, 1, Len(selected) - 1))

RECURSIVE AllEdges(_)
AllEdges(selected) ==
    IF selected = <<>> THEN <<>>
    ELSE AllEdges(SubSeq(selected, 1, Len(selected) - 1)) \o EdgesOf(selected[Len(selected)])

create_elements_of(cs, ds, selected) ==
    [i \in 1..Len(cs) |-> ControlNode(cs[i])]
        \o [i \in 1..Len(ds) |-> DocumentNode(ds[i])]
        \o AllEdges(selected)

create_elements ==
    /\ pc = "create_elements"
    /\ elements' = create_elements_of(controls, documents, selected_controls)
    /\ built' = TRUE
    /\ pc' = "done"
    /\ UNCHANGED <<selector_vars, dirs, controls, documents, selected_controls, warnings, raised>>

----------------------------------------------------------------------------
(* The pipeline is run again over the unchanged directories: a new process,*)
(* whose output starts empty; the lists keep what the last run returned    *)
(* until the new run returns its own.                                      *)

run_again ==
    /\ pc = "done"
    /\ pc' = "load_controls"
    /\ warnings' = <<>>
    /\ raised' = "none"
    /\ UNCHANGED <<selector_vars, dirs, controls, documents, selected_controls, elements, built>>

Next ==
    \/ load_controls
    \/ first_control
    \/ load_documents
    \/ first_document
    \/ load_selected_controls
    \/ third_selected_control
    \/ create_elements
    \/ run_again

----------------------------------------------------------------------------
(* extract_document_metadata of app/selector: the title of a document as   *)
(* the selection prompt shows it.                                          *)

\* os.path.splitext(filename)[0]: the name up to its last dot, when that dot
\* follows a character that is not a dot
splitext_root(filename) ==
    LET dots == {k \in 2..Len(filename) :
                    /\ filename[k] = "."
                    /\ \E j \in 1..(k - 1) : filename[j] # "."}
    IN  IF dots = {} THEN filename
        ELSE SubSeq(filename, 1, (CHOOSE k \in dots : \A d \in dots : k >= d) - 1)

\* the loop over the lines: the title of the first line that, stripped, starts
\* with "#" (the loop breaks there, also when the title is empty), "" if none
RECURSIVE first_heading_title(_)
first_heading_title(lines) ==
    IF lines = <<>> THEN <<>>
    ELSE LET line_stripped == strip(lines[1])
         IN  IF startswith(line_stripped, <<"#", " ">>)
             THEN strip(SubSeq(line_stripped, 3, Len(line_stripped)))
             ELSE IF startswith(line_stripped, <<"#">>)
             THEN strip(SubSeq(line_stripped, 2, Len(line_stripped)))
             ELSE first_heading_title(Tail(lines))

\* extract_document_metadata(document_content, filename)["title"]
extract_document_metadata_title(document_content, filename) ==
    LET title == first_heading_title(split(document_content, "\n"))
    IN  IF title = <<>> THEN splitext_root(filename) ELSE title

----------------------------------------------------------------------------
(* app/selector: find_control_file and DocumentSelector.select_documents.  *)
(* A value that may be None is <<>> for None and <<v>> for the value v.    *)

None == <<>>
Some(v) == <<v>>

\* "not x" for a text that may be None: None and "" are false
falsy(x) == x = None \/ x[1] = <<>>

CONTROLS_DIR == <<"c", "o", "n", "t", "r", "o", "l", "s">>

\* os.path.join(dir, name) for a name that does not begin with "/"
path_join(dirname, name) == dirname \o <<"/">> \o name

\* os.path.basename(path): what follows the last "/"
basename(path) ==
    LET slashes == {k \in 1..Len(path) : path[k] = "/"}
    IN  IF slashes = {} THEN path
        ELSE SubSeq(path, (CHOOSE k \in slashes : \A j \in slashes : k >= j) + 1, Len(path))

\* glob.glob(os.path.join(controls_dir, "*.md")): the paths of the files whose
\* name ends in .md and does not begin with a dot, none for a missing directory
glob_glob_md(dirname, dir, fold_case) ==
    {path_join(dirname, f.name) : f \in {f \in glob_md(dir, fold_case) : f.name[1] # "."}}

\* a mutant of find_control_file_of: the id need only be a prefix of the name
find_control_file_of_prefix(id, dirname, dir, fold_case) ==
    LET matching_files == {file_path \in glob_glob_md(dirname, dir, fold_case) :
                              startswith(basename(file_path), id)}
    IN  IF matching_files = {}
        THEN [raised |-> "FileNotFoundError", path |-> None]
        ELSE IF Cardinality(matching_files) > 1
        THEN [raised |-> "ValueError", path |-> None]
        ELSE [raised |-> "none", path |-> Some(CHOOSE file_path \in matching_files : TRUE)]

\* what find_control_file(id, dirname) raises or returns
find_control_file_of(id, dirname, dir, fold_case) ==
    LET matching_files == {file_path \in glob_glob_md(dirname, dir, fold_case) :
                              \/ startswith(basename(file_path), id \o <<" ">>)
                              \/ basename(file_path) = id \o MD}
    IN  IF matching_files = {}
        THEN [raised |-> "FileNotFoundError", path |-> None]
        ELSE IF Cardinality(matching_files) > 1
        THEN [raised |-> "ValueError", path |-> None]
        ELSE [raised |-> "none", path |-> Some(CHOOSE file_path \in matching_files : TRUE)]

\* the ids a caller asks for
ControlIds == {<<"5", ".", "2">>, <<"5", ".", "2", "0">>, <<"8", ".", "1">>, <<".", "5">>}

find_control_file ==
    /\ pc = "find_control_file"
    /\ \E id \in ControlIds :
        LET found == find_control_file_of(id, CONTROLS_DIR, controls_dir, case_insensitive_glob)
        IN  /\ control_id' = id
            /\ control_path' = found.path
            /\ raised' = found.raised
    /\ pc' = "select_documents"
    /\ UNCHANGED <<dirs, loaded, agent, agents_created, prompts, calls, call, returned,
                   agent_response>>

\* get_control_name_from_path(control_path)
get_control_name_from_path(path) == splitext_root(basename(path))

\* the files of the controls directory at a path
FilesAt(path) == {f \in controls_dir.files : path_join(CONTROLS_DIR, f.name) = path}

\* read_control_file(control_path): the content, or the exception raised
read_control_file(path) ==
    IF FilesAt(path) = {} THEN [raised |-> "FileNotFoundError", content |-> None]
    ELSE LET file == CHOOSE f \in FilesAt(path) : TRUE
         IN  IF file.readable THEN [raised |-> "none", content |-> Some(file.content)]
             ELSE [raised |-> "PermissionError", content |-> None]

\* read_all_documents(documents_dir): the metadata of the readable files named
\* *.md, as a set (the list has them in the order of os.listdir), or the
\* exception raised for a missing directory
read_all_documents(dir) ==
    IF ~dir.exists THEN [raised |-> "FileNotFoundError", documents |-> {}]
    ELSE [raised |-> "none",
          documents |-> {[filename |-> f.name,
                          title |-> extract_document_metadata_title(f.content, f.name)] :
                         f \in {f \in dir.files : endswith(f.name, MD) /\ f.readable}}]

\* str.replace(old, ""): the occurrences of old removed, from the left, none
\* overlapping another
RECURSIVE remove_all(_, _)
remove_all(text, old) ==
    IF Len(text) < Len(old) THEN text
    ELSE IF startswith(text, old)
    THEN remove_all(SubSeq(text, Len(old) + 1, Len(text)), old)
    ELSE <<text[1]>> \o remove_all(Tail(text), old)

\* "sub in text"
contains(text, sub) ==
    \E k \in 1..(Len(text) - Len(sub) + 1) : SubSeq(text, k, k + Len(sub) - 1) = sub

\* the backtick, which a TLA+ string cannot hold, is written as an apostrophe
BACKTICK == "'"
FENCE == <<BACKTICK, BACKTICK, BACKTICK>>
FENCE_MD == FENCE \o <<"m", "d">>
FENCE_MARKDOWN == FENCE \o <<"m", "a", "r", "k", "d", "o", "w", "n">>
SELECTED_DOCUMENTS ==
    <<"S", "e", "l", "e", "c", "t", "e", "d", " ", "D", "o", "c", "u", "m",
      "e", "n", "t", "s">>
HEADER ==
    <<"#", " ", "S", "e", "l", "e", "c", "t", "e", "d", " ", "D", "o", "c",
      "u", "m", "e", "n", "t", "s">>
HEADER_FOR ==
    <<"#", " ", "S", "e", "l", "e", "c", "t", "e", "d", " ", "D", "o", "c",
      "u", "m", "e", "n", "t", "s", " ", "f", "o", "r", " ", "I", "S", "O",
      " ", "2", "7", "0", "0", "1", " ", "C", "o", "n", "t", "r", "o", "l",
      " ">>

\* text.find("#"), as a position from 1: Len(text) + 1 for -1
FirstHash(text) ==
    LET hits == {k \in 1..Len(text) : text[k] = "#"}
    IN  IF hits = {} THEN Len(text) + 1 ELSE CHOOSE k \in hits : \A j \in hits : k <= j

\* the header of the answer without its fences is kept, cut to from the first
\* "#", or put in front with the name of the control
with_header(pure, name) ==
    IF startswith(pure, HEADER) THEN pure
    ELSE IF contains(pure, SELECTED_DOCUMENTS)
    THEN LET start_idx == FirstHash(pure)
         IN  IF start_idx <= Len(pure) THEN strip(SubSeq(pure, start_idx, Len(pure)))
             ELSE pure
    ELSE HEADER_FOR \o name \o <<"\n", "\n">> \o pure

\* what select_documents makes of the agent's answer: code fences removed, and
\* the header looked for, cut to, or put in front
response_text(response, name) ==
    with_header(strip(remove_all(remove_all(remove_all(strip(response), FENCE_MARKDOWN),
                                            FENCE_MD), FENCE)),
                name)

\* the arguments a caller may give
ControlContents == {None, Some(<<"c">>)}
ControlNames == {None, Some(<<"N">>)}
DocumentLists == {None, Some({}), Some({[filename |-> <<"9", ".", "m", "d">>, title |-> <<"9">>]})}

NoCall ==
    [control_content |-> None, control_name |-> None, control_path |-> None,
     documents |-> None]

\* what one call of select_documents does: the exception it raises, the agent
\* it leaves in self._agent, whether it created that agent, whether it sent
\* the prompt, and the text it returns
select_documents_of(args, init_ok, agent_ok) ==
    LET created == agent = 0 /\ init_ok
        agent1  == IF created THEN agents_created + 1 ELSE agent
        reads   == ~falsy(args.control_path) /\ falsy(args.control_content)
        read    == IF reads THEN read_control_file(args.control_path[1])
                   ELSE [raised |-> "none", content |-> args.control_content]
        name    == IF reads /\ falsy(args.control_name)
                   THEN Some(get_control_name_from_path(args.control_path[1]))
                   ELSE args.control_name
        listed  == IF args.documents = None THEN read_all_documents(documents_dir)
                   ELSE [raised |-> "none", documents |-> args.documents[1]]
        failure == IF agent1 = 0 THEN "Exception"
                   ELSE IF read.raised # "none" THEN read.raised
                   ELSE IF falsy(read.content) THEN "ValueError"
                   ELSE IF falsy(name) THEN "ValueError"
                   ELSE IF listed.raised # "none" THEN listed.raised
                   ELSE IF listed.documents = {} THEN "ValueError"
                   ELSE IF ~agent_ok THEN "Exception"
                   ELSE "none"
    IN  [raised   |-> failure,
         agent    |-> agent1,
         created  |-> created,
         prompted |-> failure = "none" \/ (failure = "Exception" /\ agent1 # 0),
         result   |-> IF failure = "none" THEN Some(response_text(agent_response, name[1]))
                      ELSE None]

select_documents ==
    /\ pc = "select_documents"
    /\ calls < MaxCalls
    /\ \E control_content \in ControlContents, control_name \in ControlNames,
          path \in {None, control_path}, documents_given \in DocumentLists,
          init_ok \in (IF agent = 0 THEN BOOLEAN ELSE {TRUE}), agent_ok \in BOOLEAN :
        LET args == [control_content |-> control_content, control_name |-> control_name,
                     control_path |-> path, documents |-> documents_given]
            done == select_documents_of(args, init_ok, agent_ok)
        IN  /\ call' = args
            /\ raised' = done.raised
            /\ agent' = done.agent
            /\ agents_created' = IF done.created THEN agents_created + 1 ELSE agents_created
            /\ prompts' = IF done.prompted THEN Append(prompts, done.agent) ELSE prompts
            /\ returned' = done.result
    /\ calls' = calls + 1
    /\ UNCHANGED <<dirs, loaded, pc, control_id, control_path, agent_response>>

\* what a client of app/selector does
NextSelector ==
    \/ find_control_file
    \/ select_documents

----------------------------------------------------------------------------
(* Initial states: the directories as they are found, nothing loaded yet.  *)

File(name, content) == [name |-> name, content |-> content, readable |-> TRUE]

Dir(files) == [exists |-> TRUE, files |-> files]

\* the directories holding at most n files of a pool
DirsOf(pool, n) == {Dir(files) : files \in {S \in SUBSET pool : Cardinality(S) <= n}}

\* "/pages/<id>"
Link(id) == PAGES \o id

\* a DocumentSelector as __init__ leaves it, and nothing looked for yet
FreshSelector ==
    /\ control_id = <<>>
    /\ control_path = None
    /\ agent = 0
    /\ agents_created = 0
    /\ prompts = <<>>
    /\ calls = 0
    /\ call = NoCall
    /\ returned = None

NothingLoaded ==
    /\ pc = "load_controls"
    /\ controls = <<>>
    /\ documents = <<>>
    /\ selected_controls = <<>>
    /\ elements = <<>>
    /\ warnings = <<>>
    /\ raised = "none"
    /\ built = FALSE
    /\ FreshSelector
    /\ agent_response = <<>>

Control_5_1_A  == File(<<"5", ".", "1", " ", "A", ".", "m", "d">>, <<"a">>)
Control_5_01_A == File(<<"5", ".", "0", "1", " ", "A", ".", "m", "d">>, <<"b">>)
Control_5_1_B  == File(<<"5", ".", "1", " ", "B", ".", "m", "d">>, <<"c">>)
Control_5_2_A  == File(<<"5", ".", "2", " ", "A", ".", "m", "d">>, <<"d">>)
Control_5_10_A == File(<<"5", ".", "1", "0", " ", "A", ".", "m", "d">>, <<"e">>)
Control_README == File(<<"R", "E", "A", "D", "M", "E", ".", "m", "d">>, <<"f">>)

ControlFiles ==
    {Control_5_1_A, Control_5_01_A, Control_5_1_B, Control_5_2_A, Control_5_10_A,
     Control_README}

Document_7  == File(<<"7", ".", "m", "d">>, <<"#", " ", "T">>)
Document_07 == File(<<"0", "7", ".", "m", "d">>, <<"T">>)
Document_12 == File(<<"1", "2", ".", "m", "d">>, <<>>)

DocumentFiles == {Document_7, Document_07, Document_12}

Report_5_1_A ==
    File(<<"5", ".", "1", " ", "A", ".", "m", "d">>,
         Link(<<"7">>) \o <<" ">> \o Link(<<"0", "7">>) \o <<" ">> \o Link(<<"7">>)
             \o <<" ">> \o Link(<<"9", "9">>))
Report_5_1_B ==
    File(<<"5", ".", "1", " ", "B", ".", "m", "d">>,
         Link(<<"1", "2">>) \o Link(<<"7">>))
Report_8_1_C ==
    File(<<"8", ".", "1", " ", "C", ".", "m", "d">>, <<"n", "o", "n", "e">>)
Report_5_2_D ==
    File(<<"5", ".", "2", " ", "D", ".", "m", "d">>, Link(<<"1", "2">>))

ReportFiles == {Report_5_1_A, Report_5_1_B, Report_8_1_C}

\* the pipeline over directories of a few files each
Init ==
    /\ entry_point = "functions"
    /\ case_insensitive_glob = FALSE
    /\ controls_dir \in DirsOf(ControlFiles, MaxFiles)
    /\ documents_dir \in DirsOf(DocumentFiles, MaxFiles)
    /\ selected_documents_dir \in DirsOf(ReportFiles, MaxFiles)
    /\ NothingLoaded

Spec == Init /\ [][Next]_vars

\* the pipeline over directories in which no two control files and no two
\* reports have equal sort keys, so that an unchanged directory of them yields
\* one list whatever its listing order
InitRerun ==
    /\ entry_point \in {"main", "functions"}
    /\ case_insensitive_glob = FALSE
    /\ controls_dir \in DirsOf({Control_5_1_A, Control_5_2_A, Control_5_10_A}, MaxFiles)
    /\ documents_dir \in DirsOf(DocumentFiles, MaxFiles)
    /\ selected_documents_dir
           \in DirsOf({Report_5_1_A, Report_5_2_D, Report_8_1_C}, MaxFiles + 1)
    /\ NothingLoaded

SpecRerun == InitRerun /\ [][Next]_vars

\* one control file and one report under every short filename
StemAlphabet == {"5", ".", " ", "\t", "A"}

InitParse ==
    /\ entry_point = "functions"
    /\ case_insensitive_glob = FALSE
    /\ \E stem \in TextsUpTo(StemAlphabet, MaxStemLen) :
        /\ controls_dir = Dir({File(stem \o MD, <<"a">>)})
        /\ selected_documents_dir = Dir({File(stem \o MD, Link(<<"7">>))})
    /\ documents_dir = Dir({Document_7})
    /\ NothingLoaded

SpecParse == InitParse /\ [][Next]_vars

\* one report of every short content, over every set of known documents
ReportSegments == {PAGES, <<"7">>, <<"1">>, <<"x">>}

RECURSIVE ReportsUpTo(_)
ReportsUpTo(n) ==
    IF n = 0 THEN {<<>>}
    ELSE LET shorter == ReportsUpTo(n - 1)
         IN  shorter \cup {t \o seg : t \in shorter, seg \in ReportSegments}

Document_17 == File(<<"1", "7", ".", "m", "d">>, <<"S">>)

InitExtract ==
    /\ entry_point = "functions"
    /\ case_insensitive_glob = FALSE
    /\ controls_dir = Dir({Control_5_1_A})
    /\ documents_dir \in DirsOf({Document_7, Document_17}, 2)
    /\ \E content \in ReportsUpTo(MaxSegments) :
        selected_documents_dir = Dir({File(Control_5_1_A.name, content)})
    /\ NothingLoaded

SpecExtract == InitExtract /\ [][Next]_vars

\* one document of every short content
ContentAlphabet == {"#", " ", "T", "\n"}

InitName ==
    /\ entry_point = "functions"
    /\ case_insensitive_glob = FALSE
    /\ controls_dir = Dir({Control_5_1_A})
    /\ \E content \in TextsUpTo(ContentAlphabet, MaxContentLen) :
        documents_dir = Dir({File(Document_7.name, content)})
    /\ selected_documents_dir = Dir({Report_5_1_A})
    /\ NothingLoaded

SpecName == InitName /\ [][Next]_vars

\* a selection directory with template files of every case, on both platforms
Template_lower == File(TEMPLATE_MD, <<"t">>)
Template_Title == File(<<"T", "e", "m", "p", "l", "a", "t", "e", ".", "m", "d">>, <<"t">>)
Template_UPPER == File(<<"T", "E", "M", "P", "L", "A", "T", "E", ".", "M", "D">>, <<"t">>)
Report_notes   == File(<<"n", "o", "t", "e", "s", ".", "m", "d">>, <<"n">>)

TemplateFiles == {Template_lower, Template_Title, Template_UPPER, Report_notes, Report_5_1_A}

\* a directory whose names fold to the same name cannot exist where names fold
NoCaseClash(dir) ==
    \A f, g \in dir.files : lower(f.name) = lower(g.name) => f = g

InitSelected ==
    /\ entry_point = "functions"
    /\ case_insensitive_glob \in BOOLEAN
    /\ controls_dir = Dir({Control_5_1_A})
    /\ documents_dir = Dir({Document_7})
    /\ selected_documents_dir \in DirsOf(TemplateFiles, MaxFiles + 1)
    /\ case_insensitive_glob => NoCaseClash(selected_documents_dir)
    /\ NothingLoaded

SpecSelected == InitSelected /\ [][Next]_vars

\* the loaders over directories that may be missing, and that hold files with
\* malformed names, files that are not markdown and files that cannot be read
Unreadable(name) == [name |-> name, content |-> <<>>, readable |-> FALSE]

MissingDir == [exists |-> FALSE, files |-> {}]

NOTES_TXT == <<"n", "o", "t", "e", "s", ".", "t", "x", "t">>

Control_notes_txt == File(NOTES_TXT, <<"g">>)
Control_5_3_locked == Unreadable(<<"5", ".", "3", " ", "A", ".", "m", "d">>)

LoaderControlFiles ==
    {Control_5_1_A, Control_README, Control_notes_txt, Control_5_3_locked}

Document_7a == File(<<"7", "a", ".", "m", "d">>, <<"#", "U">>)
Document_notes_txt == File(NOTES_TXT, <<"#", "V">>)
Document_3_locked == Unreadable(<<"3", ".", "m", "d">>)

SOURCE_URL ==
    <<"*", "*", "S", "o", "u", "r", "c", "e", " ", "U", "R", "L", ":", "*", "*">>
HTTPS == <<"h", "t", "t", "p", "s", ":", "/", "/">>
HTTP == <<"h", "t", "t", "p", ":", "/", "/">>

Document_21 ==
    File(<<"2", "1", ".", "m", "d">>,
         <<"#", "W", "\n">> \o SOURCE_URL \o <<" ">> \o HTTPS \o <<"w">>)

LoaderDocumentFiles ==
    {Document_7, Document_12, Document_21, Document_7a, Document_notes_txt,
     Document_3_locked}

Report_notes_txt == File(NOTES_TXT, Link(<<"7">>))
Report_5_2_locked == Unreadable(<<"5", ".", "2", " ", "B", ".", "m", "d">>)

LoaderReportFiles ==
    {Report_5_1_A, Report_8_1_C, Report_notes_txt, Report_5_2_locked, Template_Title}

InitLoaders ==
    /\ entry_point = "functions"
    /\ case_insensitive_glob = FALSE
    /\ controls_dir \in {MissingDir} \cup DirsOf(LoaderControlFiles, MaxFiles)
    /\ documents_dir \in {MissingDir} \cup DirsOf(LoaderDocumentFiles, MaxFiles + 1)
    /\ selected_documents_dir \in {MissingDir} \cup DirsOf(LoaderReportFiles, MaxFiles)
    /\ NothingLoaded

SpecLoaders == InitLoaders /\ [][Next]_vars

\* the pipeline, run by main() or by a client, over controls and reports that
\* share ids or have no counterpart
InitGraph ==
    /\ entry_point \in {"main", "functions"}
    /\ case_insensitive_glob = FALSE
    /\ controls_dir \in DirsOf({Control_5_1_A, Control_5_1_B, Control_5_2_A}, MaxFiles)
    /\ documents_dir \in DirsOf(DocumentFiles, MaxFiles)
    /\ selected_documents_dir
           \in DirsOf({Report_5_1_A, Report_5_1_B, Report_5_2_D, Report_8_1_C}, MaxFiles + 1)
    /\ NothingLoaded

SpecGraph == InitGraph /\ [][Next]_vars

\* app/selector over a controls directory of a few files, some sharing an id
\* or its first characters, and a documents directory that may be missing
Control_5_2_I  == File(<<"5", ".", "2", " ", "I", ".", "m", "d">>, <<"h">>)
Control_5_2    == File(<<"5", ".", "2", ".", "m", "d">>, <<"i">>)
Control_5_20_A == File(<<"5", ".", "2", "0", " ", "A", ".", "m", "d">>, <<"j">>)
Control_5_2_txt == File(<<"5", ".", "2", " ", "I", ".", "t", "x", "t">>, <<"k">>)
Control_8_1_locked == Unreadable(<<"8", ".", "1", " ", "C", ".", "m", "d">>)
Control_hidden == File(<<".", "5", " ", "H", ".", "m", "d">>, <<"l">>)

SelectorControlFiles ==
    {Control_5_2_I, Control_5_2, Control_5_20_A, Control_5_2_txt, Control_8_1_locked,
     Control_hidden}

\* the agent's answer in the selector specification
Response_plain == <<"x">>

SelectorIdle ==
    /\ entry_point = "functions"
    /\ case_insensitive_glob = FALSE
    /\ selected_documents_dir = Dir({})
    /\ pc = "find_control_file"
    /\ controls = <<>>
    /\ documents = <<>>
    /\ selected_controls = <<>>
    /\ elements = <<>>
    /\ warnings = <<>>
    /\ raised = "none"
    /\ built = FALSE

InitSelector ==
    /\ controls_dir \in DirsOf(SelectorControlFiles, MaxFiles)
    /\ documents_dir \in {MissingDir, Dir({Document_7}), Dir({Document_3_locked})}
    /\ agent_response = Response_plain
    /\ SelectorIdle
    /\ FreshSelector

SpecSelector == InitSelector /\ [][NextSelector]_vars

\* select_documents under every short answer of the agent
ResponseSegments ==
    {HEADER, SELECTED_DOCUMENTS, <<"#">>, FENCE, <<"m", "d">>, <<"x">>, <<" ">>}

RECURSIVE ResponsesUpTo(_)
ResponsesUpTo(n) ==
    IF n = 0 THEN {<<>>}
    ELSE LET shorter == ResponsesUpTo(n - 1)
         IN  shorter \cup {t \o seg : t \in shorter, seg \in ResponseSegments}

\* a DocumentSelector whose earlier calls, select_documents(), all failed
\* where the agent is created: one call is left
OneCallLeft ==
    /\ control_id = <<>>
    /\ control_path = None
    /\ agent = 0
    /\ agents_created = 0
    /\ prompts = <<>>
    /\ calls = MaxCalls - 1
    /\ call = NoCall
    /\ returned = None

InitResponse ==
    /\ controls_dir = Dir({Control_5_2_I})
    /\ documents_dir = Dir({Document_7})
    /\ agent_response \in ResponsesUpTo(MaxResponseSegments)
    /\ SelectorIdle
    /\ OneCallLeft

SpecResponse == InitResponse /\ [][NextSelector]_vars

----------------------------------------------------------------------------
(* Properties of extract_document_ids_from_content (SpecExtract).          *)

\* the known ids: {doc.id for doc in documents}
KnownIds == {documents[i].id : i \in 1..Len(documents)}

\* the maximal runs of digits that directly follow an occurrence of "/pages/"
MarkerRuns(content) ==
    LET n == Len(content)
        starts == {i \in 1..(n - 7) : SubSeq(content, i, i + 6) = PAGES}
    IN  UNION {{SubSeq(content, i + 7, e) :
                    e \in {e \in (i + 7)..n :
                              /\ \A k \in (i + 7)..e : IsDigit(content[k])
                              /\ (e = n \/ ~IsDigit(content[e + 1]))}}
               : i \in starts}

\* the reports load_selected_controls makes a record of
Reports ==
    {f \in glob_md(selected_documents_dir, case_insensitive_glob) :
        /\ lower(f.name) # TEMPLATE_MD
        /\ control_pattern_match(f.name) # <<>>
        /\ f.readable}

Selected == raised = "none" /\ pc \in {"third_selected_control", "create_elements", "done"}

\* C1: the ids of a report's record are exactly the maximal digit runs that
\* follow "/pages/" in the report and are ids of known documents; an unknown id
\* is dropped, and neither an error is raised nor a warning printed for it.
C1_KnownMarkerRuns ==
    Selected =>
        /\ raised = "none"
        /\ \A f \in Reports :
            /\ \E i \in 1..Len(selected_controls) :
                /\ <<selected_controls[i].id, selected_controls[i].name>>
                       = control_pattern_match(f.name)
                /\ Range(selected_controls[i].relevant_document_ids)
                       = MarkerRuns(f.content) \cap KnownIds
            /\ \A k \in 1..Len(warnings) : warnings[k].filename # f.name

\* a report that names a known id, and an unknown id that is dropped
C1_Witness ==
    /\ pc = "done"
    /\ \E f \in Reports :
        /\ MarkerRuns(f.content) \cap KnownIds # {}
        /\ MarkerRuns(f.content) \ KnownIds # {}
        /\ \E i \in 1..Len(selected_controls) :
               selected_controls[i].relevant_document_ids # <<>>

\* C2: no id occurs twice in the relevant_document_ids of a record, however
\* often the report names it.
C2_NoDuplicateIds ==
    \A i \in 1..Len(selected_controls) :
        LET ids == selected_controls[i].relevant_document_ids
        IN  \A j, k \in 1..Len(ids) : j # k => ids[j] # ids[k]

\* a report that names a known id twice, and its record
C2_Witness ==
    /\ pc = "done"
    /\ \E f \in Reports :
        LET matches == findall_pages(f.content, 1)
        IN  \E j, k \in 1..Len(matches) :
                /\ j # k
                /\ matches[j] = matches[k]
                /\ matches[j] \in KnownIds
                /\ \E i \in 1..Len(selected_controls) :
                       matches[j] \in Range(selected_controls[i].relevant_document_ids)

\* C3: the relevant_document_ids of a record are in ascending order of their
\* integer values.
C3_SortedByInt ==
    \A i \in 1..Len(selected_controls) :
        LET ids == selected_controls[i].relevant_document_ids
        IN  \A k \in 1..(Len(ids) - 1) : int(ids[k]) <= int(ids[k + 1])

\* a record with the ids 7 and 17, which string order would put the other way
C3_Witness ==
    /\ pc = "done"
    /\ \E i \in 1..Len(selected_controls) :
           selected_controls[i].relevant_document_ids = <<<<"7">>, <<"1", "7">>>>

----------------------------------------------------------------------------
(* Properties of the filename pattern (SpecParse).                         *)

\* the first position of s at or after from whose character is in chars, or
\* Len(s) + 1
FirstIn(s, from, chars) ==
    LET hits == {k \in from..Len(s) : s[k] \in chars}
    IN  IF hits = {} THEN Len(s) + 1 ELSE CHOOSE k \in hits : \A j \in hits : k <= j

\* the first position of s at or after from whose character is not in chars,
\* or Len(s) + 1
FirstNotIn(s, from, chars) ==
    LET hits == {k \in from..Len(s) : s[k] \notin chars}
    IN  IF hits = {} THEN Len(s) + 1 ELSE CHOOSE k \in hits : \A j \in hits : k <= j

\* the part of a filename before its first whitespace character
BeforeWhitespace(filename) ==
    SubSeq(filename, 1, FirstIn(filename, 1, Whitespace) - 1)

\* the part of a filename between the whitespace that follows the id and the
\* final ".md"; the last whitespace character when nothing else is left
AfterWhitespace(filename) ==
    LET first == FirstNotIn(filename, FirstIn(filename, 1, Whitespace), Whitespace)
        last  == Len(filename) - 3
    IN  IF first <= last THEN SubSeq(filename, first, last) ELSE SubSeq(filename, last, last)

\* the part of a filename before its first space
BeforeFirstSpace(filename) ==
    SubSeq(filename, 1, FirstIn(filename, 1, {" "}) - 1)

\* the part of a filename between its first space and the final ".md"
AfterFirstSpace(filename) ==
    SubSeq(filename, FirstIn(filename, 1, {" "}) + 1, Len(filename) - 3)

\* C4 as claimed: the id of every Control and SelectedControl is the part of its
\* filename before the first space, its name the part between that space and
\* ".md".
C4_SplitAtFirstSpace ==
    /\ \A i \in 1..Len(controls) : \E f \in controls_dir.files :
        /\ controls[i].content = f.content
        /\ controls[i].id = BeforeFirstSpace(f.name)
        /\ controls[i].name = AfterFirstSpace(f.name)
    /\ \A i \in 1..Len(selected_controls) : \E f \in selected_documents_dir.files :
        /\ selected_controls[i].id = BeforeFirstSpace(f.name)
        /\ selected_controls[i].name = AfterFirstSpace(f.name)

\* C4, amended: the id is the part of the filename before its first whitespace
\* character, the name the part between the run of whitespace that follows the
\* id and ".md" (the last character of the run when nothing else is left).
C4_SplitAtWhitespaceRun ==
    /\ \A i \in 1..Len(controls) : \E f \in controls_dir.files :
        /\ controls[i].content = f.content
        /\ controls[i].id = BeforeWhitespace(f.name)
        /\ controls[i].name = AfterWhitespace(f.name)
    /\ \A i \in 1..Len(selected_controls) : \E f \in selected_documents_dir.files :
        /\ selected_controls[i].id = BeforeWhitespace(f.name)
        /\ selected_controls[i].name = AfterWhitespace(f.name)

\* a control and a report whose id and name are separated by two or more
\* whitespace characters
C4_Witness ==
    /\ pc = "done"
    /\ \E f \in controls_dir.files :
        /\ FirstNotIn(f.name, FirstIn(f.name, 1, Whitespace), Whitespace)
               >= FirstIn(f.name, 1, Whitespace) + 2
        /\ Len(controls) = 1
        /\ controls[1].id \o <<" ">> \o controls[1].name \o MD # f.name
    /\ Len(selected_controls) = 1

----------------------------------------------------------------------------
(* Properties of the order of the lists (Spec).                            *)

\* (int(major), int(minor)) of an id <major>.<minor>
MajorMinor(id) ==
    LET dot == FirstIn(id, 1, {"."})
    IN  <<int(SubSeq(id, 1, dot - 1)), int(SubSeq(id, dot + 1, Len(id)))>>

\* C5: the lists of load_controls and load_selected_controls are in ascending
\* order of (int(major), int(minor)) of the record ids.
C5_SortedByMajorMinor ==
    /\ \A i \in 1..(Len(controls) - 1) :
        ~TupleLess(MajorMinor(controls[i + 1].id), MajorMinor(controls[i].id))
    /\ \A i \in 1..(Len(selected_controls) - 1) :
        ~TupleLess(MajorMinor(selected_controls[i + 1].id),
                   MajorMinor(selected_controls[i].id))

\* the controls 5.2 and 5.10 loaded, in that order, and two selection records
C5_Witness ==
    /\ pc = "done"
    /\ Len(controls) = 2
    /\ controls[1].id = <<"5", ".", "2">>
    /\ controls[2].id = <<"5", ".", "1", "0">>
    /\ Len(selected_controls) = 2
    /\ selected_controls[1].id = <<"5", ".", "1">>
    /\ selected_controls[2].id = <<"8", ".", "1">>

\* C6 as claimed: over unchanged directories every later run returns the lists
\* the run before returned, whatever order the directories are listed in.
C6_SameListsWhateverTheListing ==
    [][built => /\ controls' = controls
                /\ documents' = documents
                /\ selected_controls' = selected_controls]_vars

\* the nodes create_elements makes of the controls and the documents
NodesOf(cs, ds) == create_elements_of(cs, ds, <<>>)

\* C7 as claimed, for a later run that lists every directory as the run before
\* did (SpecRerun: no two control files and no two reports have equal sort keys,
\* and the documents come in the order of the nodes built before): it builds
\* the elements the run before built, in the same order.
C7_SameElementsOnRerun ==
    [][(/\ built
        /\ pc = "create_elements"
        /\ SubSeq(elements, 1, Len(controls) + Len(documents)) = NodesOf(controls, documents))
       => elements' = elements]_vars

----------------------------------------------------------------------------
(* Properties of the template exclusion (SpecSelected).                    *)

\* the files of the selection directory named template.md in any case
Templates == {f \in selected_documents_dir.files : lower(f.name) = TEMPLATE_MD}

\* C8: a file named template.md in any case gets no record and no warning: the
\* records are those of the other listed files that match the pattern, and no
\* warning names a template.
C8_TemplateSkipped ==
    Selected =>
        /\ Len(selected_controls) = Cardinality(Reports)
        /\ \A i \in 1..Len(selected_controls) : \E f \in Reports :
               <<selected_controls[i].id, selected_controls[i].name>>
                   = control_pattern_match(f.name)
        /\ \A f \in Templates : \A k \in 1..Len(warnings) : warnings[k].filename # f.name

\* a listed template whose name is not all lower case, beside a report that
\* was loaded
C8_Witness ==
    /\ pc = "done"
    /\ \E f \in Templates \cap glob_md(selected_documents_dir, case_insensitive_glob) :
           f.name # TEMPLATE_MD
    /\ selected_controls # <<>>

----------------------------------------------------------------------------
(* Properties of the document name (SpecName).                             *)

\* the first line of a content
FirstLine(content) == SubSeq(content, 1, FirstIn(content, 1, {"\n"}) - 1)

\* the last position of s whose character is not whitespace, or 0
LastNonSpace(s) ==
    LET hits == {k \in 1..Len(s) : ~IsSpace(s[k])}
    IN  IF hits = {} THEN 0 ELSE CHOOSE k \in hits : \A j \in hits : k >= j

\* a line without the whitespace around it
Trimmed(line) == SubSeq(line, FirstNotIn(line, 1, Whitespace), LastNonSpace(line))

\* a line that is empty or all whitespace
Blank(line) == LastNonSpace(line) = 0

\* a line whose first character, leading whitespace aside, is "#"
IsHeading(line) ==
    LET first == FirstNotIn(line, 1, Whitespace)
    IN  first <= Len(line) /\ line[first] = "#"

\* the text of a heading line: what follows its markers, whitespace trimmed
HeadingText(line) ==
    LET t == Trimmed(line)
    IN  Trimmed(SubSeq(t, FirstNotIn(t, 1, {"#"}), Len(t)))

\* the name the first line of a content gives: the heading text or the trimmed
\* line, and the id when that is empty
NameOfFirstLine(content, id) ==
    LET line == FirstLine(content)
        text == IF IsHeading(line) THEN HeadingText(line) ELSE Trimmed(line)
    IN  IF text = <<>> THEN id ELSE text

\* the name the first line that is not blank gives, and the id when every line
\* is blank
NameOfFirstNonBlankLine(content, id) ==
    LET lines == split(content, "\n")
        full  == {k \in 1..Len(lines) : ~Blank(lines[k])}
    IN  IF full = {} THEN id
        ELSE LET line == lines[CHOOSE k \in full : \A j \in full : k <= j]
             IN  IF IsHeading(line) THEN HeadingText(line) ELSE Trimmed(line)

NoHeading(content) ==
    LET lines == split(content, "\n")
    IN  \A k \in 1..Len(lines) : ~IsHeading(lines[k])

\* C10 as claimed: the name of a document without a heading line is its id.
C10_NoHeadingNameIsId ==
    \A i \in 1..Len(documents) :
        NoHeading(documents[i].content) => documents[i].name = documents[i].id

\* C10, amended: the name of a document without a heading line is its id when
\* its first line is blank, and otherwise its first line without the whitespace
\* around it.
C10_NoHeadingNameIsFirstLineOrId ==
    \A i \in 1..Len(documents) :
        NoHeading(documents[i].content) =>
            documents[i].name = IF Blank(FirstLine(documents[i].content))
                                THEN documents[i].id
                                ELSE Trimmed(FirstLine(documents[i].content))

\* a document without a heading line whose name is its first line, and one
\* whose first line is blank and whose name is its id
C10_Witness ==
    /\ pc = "done"
    /\ \E i \in 1..Len(documents) :
        /\ NoHeading(documents[i].content)
        /\ ~Blank(FirstLine(documents[i].content))
        /\ documents[i].name # documents[i].id

----------------------------------------------------------------------------
(* Properties of load_documents (SpecLoaders).                             *)

\* C11: every record of load_documents comes from a file named <digits>.md, and
\* the records are in ascending order of the integer value of their ids.
C11_DigitFilesSortedByInt ==
    /\ \A i \in 1..Len(documents) :
          /\ documents[i].id # <<>>
          /\ \A k \in 1..Len(documents[i].id) : IsDigit(documents[i].id[k])
          /\ \E f \in documents_dir.files : f.name = documents[i].id \o MD
    /\ \A i \in 1..(Len(documents) - 1) : int(documents[i].id) <= int(documents[i + 1].id)

\* 7.md and 12.md loaded in that order, from a directory that also holds 7a.md
C11_Witness ==
    /\ pc = "done"
    /\ Document_7a \in documents_dir.files
    /\ Len(documents) = 2
    /\ documents[1].id = <<"7">>
    /\ documents[2].id = <<"1", "2">>

\* the URL of a line of the form "**Source URL:** <url>": the marker,
\* whitespace, then http:// or https:// and at least one more character, up to
\* the next whitespace; <<>> for a line of another form
SourceUrlOfLine(line) ==
    LET start == FirstNotIn(line, Len(SOURCE_URL) + 1, Whitespace)
        url   == SubSeq(line, start, FirstIn(line, start, Whitespace) - 1)
    IN  IF /\ startswith(line, SOURCE_URL)
           /\ \/ startswith(url, HTTPS) /\ Len(url) > Len(HTTPS)
              \/ startswith(url, HTTP) /\ Len(url) > Len(HTTP)
        THEN url
        ELSE <<>>

\* the URLs of the lines of that form in a content
SourceUrlsOf(content) ==
    LET lines == split(content, "\n")
    IN  {SourceUrlOfLine(lines[k]) : k \in 1..Len(lines)} \ {<<>>}

\* C12 as claimed: every record of load_documents has a sourceUrl, which is the
\* URL of the "**Source URL:**" line of its content, and empty when the content
\* has no such line.
C12_DocumentsCarrySourceUrl ==
    \A i \in 1..Len(documents) :
        /\ "sourceUrl" \in DOMAIN documents[i]
        /\ IF SourceUrlsOf(documents[i].content) = {}
           THEN documents[i].sourceUrl = <<>>
           ELSE documents[i].sourceUrl \in SourceUrlsOf(documents[i].content)

----------------------------------------------------------------------------
(* Properties of the loaders' failures (SpecLoaders).                      *)

\* a call of the loader at which the pipeline stands
Returns(loader) == pc = loader /\ pc' # pc

\* the call raises FileNotFoundError: nothing is returned and nothing printed
RaisesMissingDirectory(old, new) ==
    /\ raised' = "FileNotFoundError"
    /\ new = old
    /\ warnings' = warnings

\* C13: a loader given a directory that does not exist raises
\* FileNotFoundError before it processes a file and returns no list; given a
\* directory that exists it does not raise that error.
C13_MissingDirectoryRaises ==
    [][/\ Returns("load_controls") =>
            IF controls_dir.exists THEN raised' # "FileNotFoundError"
            ELSE RaisesMissingDirectory(controls, controls')
       /\ Returns("load_documents") =>
            IF documents_dir.exists THEN raised' # "FileNotFoundError"
            ELSE RaisesMissingDirectory(documents, documents')
       /\ Returns("load_selected_controls") =>
            IF selected_documents_dir.exists THEN raised' # "FileNotFoundError"
            ELSE RaisesMissingDirectory(selected_controls, selected_controls')]_vars

\* the controls were loaded from a directory that exists, then load_documents
\* raised for a directory that does not
C13_Witness ==
    /\ pc = "done"
    /\ raised = "FileNotFoundError"
    /\ controls_dir.exists
    /\ controls # <<>>
    /\ ~documents_dir.exists
    /\ documents = <<>>

\* the files a loader makes a record of: listed, named as the pattern asks,
\* readable
UsableControlFiles ==
    {f \in glob_md(controls_dir, case_insensitive_glob) :
        control_pattern_match(f.name) # <<>> /\ f.readable}

UsableDocumentFiles ==
    {f \in glob_md(documents_dir, case_insensitive_glob) :
        document_pattern_match(f.name) # <<>> /\ f.readable}

\* C14: a loader given a directory that exists raises nothing and returns
\* exactly one record for each file whose name matches its pattern and whose
\* content can be read (the template aside), whatever other files there are;
\* a report in which no known id occurs has its record too.
C14_OneRecordPerUsableFile ==
    [][/\ (Returns("load_controls") /\ controls_dir.exists) =>
            /\ raised' = "none"
            /\ Len(controls') = Cardinality(UsableControlFiles)
            /\ \A f \in UsableControlFiles : \E i \in 1..Len(controls') :
                   /\ <<controls'[i].id, controls'[i].name>> = control_pattern_match(f.name)
                   /\ controls'[i].content = f.content
       /\ (Returns("load_documents") /\ documents_dir.exists) =>
            /\ raised' = "none"
            /\ Len(documents') = Cardinality(UsableDocumentFiles)
            /\ \A f \in UsableDocumentFiles : \E i \in 1..Len(documents') :
                   /\ <<documents'[i].id>> = document_pattern_match(f.name)
                   /\ documents'[i].content = f.content
       /\ (Returns("load_selected_controls") /\ selected_documents_dir.exists) =>
            /\ raised' = "none"
            /\ Len(selected_controls') = Cardinality(Reports)
            /\ \A f \in Reports : \E i \in 1..Len(selected_controls') :
                   /\ <<selected_controls'[i].id, selected_controls'[i].name>>
                          = control_pattern_match(f.name)
                   /\ Range(selected_controls'[i].relevant_document_ids)
                          = MarkerRuns(f.content) \cap KnownIds]_vars

\* a selection directory with a report that cannot be read and a report in
\* which no known id occurs: one record, of no ids
C14_Witness ==
    /\ pc = "done"
    /\ raised = "none"
    /\ selected_documents_dir.files = {Report_5_2_locked, Report_8_1_C}
    /\ Document_7 \in documents_dir.files
    /\ Len(selected_controls) = 1
    /\ selected_controls[1].relevant_document_ids = <<>>

----------------------------------------------------------------------------
(* Properties of the loaders' warnings (SpecLoaders).                      *)

\* the number of warnings the call printed for a filename
WarningsFor(filename) ==
    Cardinality({k \in (Len(warnings) + 1)..Len(warnings') :
                    warnings'[k].filename = filename})

\* C15 as claimed: load_controls and load_documents print exactly one warning
\* for every file of the directory whose name does not match the pattern
\* (notes.txt, README.md) and leave it out of the result; a file that matches
\* and is readable gets no warning.
C15_OneWarningPerMismatch ==
    [][/\ (Returns("load_controls") /\ controls_dir.exists) =>
            /\ \A f \in controls_dir.files :
                  /\ control_pattern_match(f.name) = <<>> => WarningsFor(f.name) = 1
                  /\ f \in UsableControlFiles => WarningsFor(f.name) = 0
            /\ \A i \in 1..Len(controls') : \E f \in UsableControlFiles :
                   controls'[i].content = f.content
       /\ (Returns("load_documents") /\ documents_dir.exists) =>
            /\ \A f \in documents_dir.files :
                  /\ document_pattern_match(f.name) = <<>> => WarningsFor(f.name) = 1
                  /\ f \in UsableDocumentFiles => WarningsFor(f.name) = 0
            /\ \A i \in 1..Len(documents') : \E f \in UsableDocumentFiles :
                   documents'[i].content = f.content]_vars

\* C15, amended: load_controls and load_documents print exactly one warning for
\* every file whose name ends in ".md" and does not match the pattern
\* (README.md) and leave it out of the result; a file whose name does not end
\* in ".md" (notes.txt) is never listed: it is left out with no warning; a file
\* that matches and is readable gets no warning.
C15_OneWarningPerListedMismatch ==
    [][/\ (Returns("load_controls") /\ controls_dir.exists) =>
            /\ \A f \in controls_dir.files :
                  /\ control_pattern_match(f.name) = <<>> =>
                        WarningsFor(f.name)
                            = IF f \in glob_md(controls_dir, case_insensitive_glob)
                              THEN 1 ELSE 0
                  /\ f \in UsableControlFiles => WarningsFor(f.name) = 0
            /\ \A i \in 1..Len(controls') : \E f \in UsableControlFiles :
                   controls'[i].content = f.content
       /\ (Returns("load_documents") /\ documents_dir.exists) =>
            /\ \A f \in documents_dir.files :
                  /\ document_pattern_match(f.name) = <<>> =>
                        WarningsFor(f.name)
                            = IF f \in glob_md(documents_dir, case_insensitive_glob)
                              THEN 1 ELSE 0
                  /\ f \in UsableDocumentFiles => WarningsFor(f.name) = 0
            /\ \A i \in 1..Len(documents') : \E f \in UsableDocumentFiles :
                   documents'[i].content = f.content]_vars

\* README.md and notes.txt in the controls directory: one warning for the
\* first, none for the second
C15_Witness ==
    /\ pc = "first_control"
    /\ controls_dir.files = {Control_README, Control_notes_txt}
    /\ warnings = <<PatternWarning(Control_README.name)>>
    /\ controls = <<>>

----------------------------------------------------------------------------
(* Properties of create_elements (SpecGraph).                              *)

\* create_elements has returned the elements of the lists as they stand
Built == pc = "done" /\ raised = "none"

\* the number of nodes the lists ask for
NodeCount == Len(controls) + Len(documents)

\* the elements that are nodes: those with an id
NodePositions == {k \in 1..Len(elements) : "id" \in DOMAIN elements[k].data}

\* the kind of a node is a key of the element itself, or a key of its data
KindOutside(node, kind) == "classes" \in DOMAIN node /\ node.classes = kind
KindInside(node, kind) == "classes" \in DOMAIN node.data /\ node.data.classes = kind

\* C16 as claimed: the elements begin with one node per control, in the order
\* of the list, with the control's id, the label "<id> <name>" and the kind
\* Control, then one node per document, in the order of the list, with the
\* document's id, its name as label and the kind Document; both kinds are
\* carried in the same field, and there are len(controls) + len(documents)
\* nodes.
C16_NodesPerControlAndDocument ==
    Built =>
        /\ NodePositions = 1..NodeCount
        /\ \A i \in 1..Len(controls) :
              /\ elements[i].data.id = controls[i].id
              /\ elements[i].data.label = controls[i].id \o <<" ">> \o controls[i].name
        /\ \A j \in 1..Len(documents) :
              /\ elements[Len(controls) + j].data.id = documents[j].id
              /\ elements[Len(controls) + j].data.label = documents[j].name
        /\ \/ /\ \A i \in 1..Len(controls) : KindOutside(elements[i], "Control")
              /\ \A j \in 1..Len(documents) :
                    KindOutside(elements[Len(controls) + j], "Document")
           \/ /\ \A i \in 1..Len(controls) : KindInside(elements[i], "Control")
              /\ \A j \in 1..Len(documents) :
                    KindInside(elements[Len(controls) + j], "Document")

\* the number of ids in the lists of some records
RECURSIVE TotalIds(_)
TotalIds(records) ==
    IF records = <<>> THEN 0
    ELSE Len(records[1].relevant_document_ids) + TotalIds(Tail(records))

\* C17: after the nodes come the edges, one for every record and every id of
\* its list, from the record's id to that id, record by record and id by id,
\* and nothing else: as many edges as the lists have ids.
C17_EdgesPerRecordAndId ==
    Built =>
        /\ Len(elements) = NodeCount + TotalIds(selected_controls)
        /\ \A i \in 1..Len(selected_controls) :
           \A k \in 1..Len(selected_controls[i].relevant_document_ids) :
              elements[NodeCount + TotalIds(SubSeq(selected_controls, 1, i - 1)) + k]
                  = [data |-> [source |-> selected_controls[i].id,
                               target |-> selected_controls[i].relevant_document_ids[k]]]

\* two records with edges, the first with two
C17_Witness ==
    /\ Built
    /\ Len(selected_controls) >= 2
    /\ Len(selected_controls[1].relevant_document_ids) = 2
    /\ Len(selected_controls[2].relevant_document_ids) >= 1
    /\ selected_controls[1].relevant_document_ids[1]
           # selected_controls[2].relevant_document_ids[1]

\* the elements that are edges
EdgePositions == {k \in 1..Len(elements) : "source" \in DOMAIN elements[k].data}

\* C18 as claimed: no two edges of the graph have the same source and target.
C18_NoDuplicateEdges ==
    Built =>
        \A a, b \in EdgePositions :
            a # b => <<elements[a].data.source, elements[a].data.target>>
                        # <<elements[b].data.source, elements[b].data.target>>

\* C19 as claimed: the source of every edge is the id of a Control node of the
\* graph.
C19_EdgeSourceIsControlNode ==
    Built =>
        \A e \in EdgePositions : \E i \in 1..Len(controls) :
            /\ elements[i].data.id = elements[e].data.source
            /\ KindInside(elements[i], "Control")

\* C20: the target of every edge is the id of a Document node of the graph.
C20_EdgeTargetIsDocumentNode ==
    Built =>
        \A e \in EdgePositions : \E j \in (Len(controls) + 1)..NodeCount :
            /\ elements[j].data.id = elements[e].data.target
            /\ KindOutside(elements[j], "Document")

\* main() has built a graph with edges from a report that also links a page
\* that is no document, and a page written 07 where only 7 is a document
C20_Witness ==
    /\ Built
    /\ entry_point = "main"
    /\ Report_5_1_A \in selected_documents_dir.files
    /\ documents_dir.files = {Document_7, Document_12}
    /\ EdgePositions # {}

\* C21 as claimed: the ids of the nodes of the graph are pairwise distinct.
C21_NodeIdsDistinct ==
    Built =>
        \A a, b \in NodePositions : a # b => elements[a].data.id # elements[b].data.id

----------------------------------------------------------------------------
(* Properties of main() (SpecGraph).                                       *)

\* C22 as claimed: when the three directories exist, main() raises nothing on
\* its way to create_elements, whatever the directories hold.
C22_MainReachesAssembly ==
    (/\ entry_point = "main"
     /\ controls_dir.exists
     /\ documents_dir.exists
     /\ selected_documents_dir.exists) => raised = "none"

----------------------------------------------------------------------------
(* The two titles of a document (SpecName).                                *)

\* C26 as claimed: the title extract_document_metadata computes of a document
\* is the name load_documents gives it.
C26_TitleEqualsName ==
    \A i \in 1..Len(documents) :
        extract_document_metadata_title(documents[i].content, documents[i].id \o MD)
            = documents[i].name

----------------------------------------------------------------------------
(* Properties of find_control_file (SpecSelector).                         *)

\* the paths of the '*.md' entries of the controls directory whose name starts
\* with the id and a space, or is the id followed by '.md'
PathsNamedAfter(id) ==
    {path_join(CONTROLS_DIR, f.name) :
        f \in {f \in controls_dir.files :
                  /\ Len(f.name) >= Len(MD)
                  /\ SubSeq(f.name, Len(f.name) - Len(MD) + 1, Len(f.name)) = MD
                  /\ f.name[1] # "."
                  /\ \/ SubSeq(f.name, 1, Len(id) + 1) = id \o <<" ">>
                     \/ f.name = id \o MD}}

\* find_control_file has returned or raised, and nothing ran after it
FoundOrFailed == pc = "select_documents" /\ calls = 0

\* C23: find_control_file returns the path of the one '*.md' file named after
\* the control id, raises FileNotFoundError when there is none and ValueError
\* when there are several; it never returns a file that is not named after it.
C23_FindsTheOneControlFile ==
    FoundOrFailed =>
        LET named == PathsNamedAfter(control_id)
        IN  /\ named = {} => raised = "FileNotFoundError" /\ control_path = None
            /\ Cardinality(named) > 1 => raised = "ValueError" /\ control_path = None
            /\ Cardinality(named) = 1 => raised = "none" /\ named = {control_path[1]}
            /\ control_path # None => control_path[1] \in named

\* '5.2' finds '5.2 I.md' next to '5.20 A.md'
C23_Witness ==
    /\ FoundOrFailed
    /\ controls_dir.files = {Control_5_2_I, Control_5_20_A}
    /\ control_id = <<"5", ".", "2">>
    /\ raised = "none"
    /\ control_path = Some(path_join(CONTROLS_DIR, Control_5_2_I.name))

----------------------------------------------------------------------------
(* Properties of DocumentSelector.select_documents (SpecSelector).         *)

\* a call of select_documents returns or raises in this step, with an agent
Called == calls' = calls + 1 /\ agent' # 0

\* the call gives no control content and no path of a readable control file
NoControlContent(args) ==
    /\ falsy(args.control_content)
    /\ \/ falsy(args.control_path)
       \/ falsy(read_control_file(args.control_path[1]).content)

\* the call gives no control name and no path to take one from
NoControlName(args) == falsy(args.control_name) /\ falsy(args.control_path)

\* the call gives an empty list of documents, or leaves it to a directory
\* that holds no readable document
NoDocuments(args) ==
    \/ args.documents = Some({})
    \/ /\ args.documents = None
       /\ documents_dir.exists
       /\ read_all_documents(documents_dir).documents = {}

\* C24 as claimed: select_documents raises ValueError and sends no prompt when
\* the control content, the control name or the documents are missing; given
\* a control_path and no control_name it takes the name from the path and
\* does not raise for the missing name.
C24_MissingParametersRaiseValueError ==
    [][Called =>
          /\ (NoControlContent(call') \/ NoControlName(call') \/ NoDocuments(call'))
                => raised' = "ValueError" /\ prompts' = prompts
          /\ (/\ ~falsy(call'.control_path)
              /\ falsy(call'.control_name)
              /\ ~NoControlContent(call')
              /\ ~NoDocuments(call')
              /\ call'.documents # None \/ documents_dir.exists)
                => raised' # "ValueError"]_vars

\* C27 as claimed: the agent is created at most once and later calls use the
\* same agent; a call that raises ValueError on a fresh DocumentSelector leaves
\* the agent uninitialized.
C27_AgentCreatedOnceAndOnlyWhenNeeded ==
    [][calls' = calls + 1 =>
          /\ agents_created' <= 1
          /\ agent # 0 => agent' = agent
          /\ (agent = 0 /\ raised' = "ValueError") => agent' = 0]_vars

----------------------------------------------------------------------------
(* Properties of the text select_documents returns (SpecResponse).         *)

\* C25 as claimed: whatever the agent answers, the text select_documents
\* returns begins with '# Selected Documents' and holds no code-fence marker.
C25_ReturnsHeaderAndNoFence ==
    returned # None =>
        /\ startswith(returned[1], HEADER)
        /\ ~contains(returned[1], FENCE)

====
